---- MODULE Spec2Model ----
(***************************************************************************)
(* Model of app.py: the narration heuristics (extract_sender_receiver_name,*)
(* extract_payment_method, extract_payment_platform), the loaders and the  *)
(* control flow of main().  Text is a sequence of one-character strings.   *)
(***************************************************************************)
EXTENDS Integers, Sequences, FiniteSets

VARIABLES pc, uploaded_file, df, total_amount, errors, written, executor,
          submitted, cash_withdrawals, other_transactions, raised, trace,
          narration, norm, name, method, platform

vars == <<pc, uploaded_file, df, total_amount, errors, written, executor,
          submitted, cash_withdrawals, other_transactions, raised, trace,
          narration, norm, name, method, platform>>

mainVars == <<pc, uploaded_file, df, total_amount, errors, written, executor,
              submitted, cash_withdrawals, other_transactions, raised, trace>>

heurVars == <<narration, norm, name, method, platform>>

-----------------------------------------------------------------------------
(* Python values: None/NaN, str and int, in one record shape.              *)

PyNone == [kind |-> "None", s |-> <<>>, n |-> 0]

PyStr(t) == [kind |-> "str", s |-> t, n |-> 0]

PyInt(k) == [kind |-> "int", s |-> <<>>, n |-> k]

Unset == [kind |-> "unset", s |-> <<>>, n |-> 0]

TypeError == [kind |-> "TypeError", s |-> <<>>, n |-> 0]

Range(f) == {f[i] : i \in DOMAIN f}

UC == <<"A","B","C","D","E","F","G","H","I","J","K","L","M",
        "N","O","P","Q","R","S","T","U","V","W","X","Y","Z">>

LC == <<"a","b","c","d","e","f","g","h","i","j","k","l","m",
        "n","o","p","q","r","s","t","u","v","w","x","y","z">>

Digits == <<"0","1","2","3","4","5","6","7","8","9">>

\* [A-Z]
IsUpper(c) == c \in Range(UC)

\* \w
IsWord(c) == c \in Range(UC) \cup Range(LC) \cup Range(Digits) \cup {"_"}

\* \s
IsSpace(c) == c \in {" ", "\t", "\n", "\r", "\f"}

\* str.lower() on one character
LowerChar(c) == IF IsUpper(c) THEN LC[CHOOSE i \in DOMAIN UC : UC[i] = c] ELSE c

\* str.lower()
Lower(t) == [i \in 1..Len(t) |-> LowerChar(t[i])]

\* k in t
Contains(t, k) == \E i \in 1..(Len(t) - Len(k) + 1) : SubSeq(t, i, i + Len(k) - 1) = k

\* t[i:].startswith(k)
StartsAt(t, i, k) == i + Len(k) - 1 <= Len(t) /\ SubSeq(t, i, i + Len(k) - 1) = k

\* \b at the gap before position i (1..Len(t)+1)
WordBoundary(t, i) ==
    LET before == i > 1 /\ IsWord(t[i-1])
        after  == i <= Len(t) /\ IsWord(t[i])
    IN  before # after

RECURSIVE StrNat(_)
\* str(k) for a non-negative int
StrNat(k) == IF k < 10 THEN <<Digits[k+1]>> ELSE StrNat(k \div 10) \o <<Digits[(k % 10) + 1]>>

\* pd.notnull
notnull(v) == v.kind # "None"

\* str(v)
str(v) == IF v.kind = "str" THEN v.s
          ELSE IF v.kind = "int" THEN StrNat(v.n)
          ELSE <<"n","a","n">>

handle_nan_passthrough(v) == v

handle_nan(v) == IF notnull(v) THEN PyStr(str(v)) ELSE PyStr(<<>>)

-----------------------------------------------------------------------------
(* re.findall(r'\b(?:[A-Z]+\s)+[A-Z]+\b', s)[0], as the backtracking       *)
(* matcher runs it: greedy [A-Z]+, greedy group repetition, give back one  *)
(* character or one repetition at a time on failure.  A match is reported  *)
(* by the position just after it; 0 means no match.                        *)

RECURSIVE UpperRun(_, _)
UpperRun(t, i) == IF i <= Len(t) /\ IsUpper(t[i]) THEN 1 + UpperRun(t, i + 1) ELSE 0

RECURSIVE TailTry(_, _, _)
\* [A-Z]+\b at i, trying l, l-1, ..., 1 letters
TailTry(t, i, l) ==
    IF l = 0 THEN 0
    ELSE IF WordBoundary(t, i + l) THEN i + l
    ELSE TailTry(t, i, l - 1)

RECURSIVE GroupTry(_, _, _, _)
RECURSIVE NameMatchFrom(_, _, _)
\* one more repetition of (?:[A-Z]+\s) at i with l, l-1, ..., 1 letters
GroupTry(t, i, l, reps) ==
    IF l = 0 THEN 0
    ELSE LET r == IF i + l <= Len(t) /\ IsSpace(t[i + l])
                  THEN NameMatchFrom(t, i + l + 1, reps + 1)
                  ELSE 0
         IN  IF r # 0 THEN r ELSE GroupTry(t, i, l - 1, reps)

\* rest of the pattern at i after reps repetitions of the group
NameMatchFrom(t, i, reps) ==
    LET more == GroupTry(t, i, UpperRun(t, i), reps)
    IN  IF more # 0 THEN more
        ELSE IF reps >= 1 THEN TailTry(t, i, UpperRun(t, i))
        ELSE 0

NameMatchAtAnywhere(t, i) == NameMatchFrom(t, i, 0)

\* the leading \b, then the rest of the pattern
NameMatchAt(t, i) == IF WordBoundary(t, i) THEN NameMatchFrom(t, i, 0) ELSE 0

RECURSIVE FirstNameFrom(_, _)
FirstNameFrom(t, i) ==
    IF i > Len(t) THEN PyNone
    ELSE IF NameMatchAt(t, i) # 0 THEN PyStr(SubSeq(t, i, NameMatchAt(t, i) - 1))
    ELSE FirstNameFrom(t, i + 1)

\* re.findall(...)[0] if any else None; re raises TypeError unless given a str
re_first_name(x) == IF x.kind # "str" THEN TypeError ELSE FirstNameFrom(x.s, 1)

extract_sender_receiver_name(v) == re_first_name(handle_nan(v))

-----------------------------------------------------------------------------
(* re.findall(r'(?:UPI|IMPS|NEFT|RTGS)\b', s)[0]                           *)

MethodTokens == << <<"U","P","I">>, <<"I","M","P","S">>,
                   <<"N","E","F","T">>, <<"R","T","G","S">> >>

RECURSIVE MethodAltTryBothSides(_, _, _)
MethodAltTryBothSides(t, i, k) ==
    IF k > Len(MethodTokens) THEN 0
    ELSE IF StartsAt(t, i, MethodTokens[k]) /\ WordBoundary(t, i)
            /\ WordBoundary(t, i + Len(MethodTokens[k]))
         THEN k
    ELSE MethodAltTryBothSides(t, i, k + 1)

RECURSIVE MethodAltTry(_, _, _)
\* alternatives k, k+1, ... of the group at i, each followed by \b
MethodAltTry(t, i, k) ==
    IF k > Len(MethodTokens) THEN 0
    ELSE IF StartsAt(t, i, MethodTokens[k]) /\ WordBoundary(t, i + Len(MethodTokens[k]))
         THEN k
    ELSE MethodAltTry(t, i, k + 1)

RECURSIVE FirstMethodFrom(_, _)
FirstMethodFrom(t, i) ==
    IF i > Len(t) THEN PyNone
    ELSE IF MethodAltTry(t, i, 1) # 0 THEN PyStr(MethodTokens[MethodAltTry(t, i, 1)])
    ELSE FirstMethodFrom(t, i + 1)

re_first_method(x) == IF x.kind # "str" THEN TypeError ELSE FirstMethodFrom(x.s, 1)

extract_payment_method(v) == re_first_method(handle_nan(v))

-----------------------------------------------------------------------------
(* extract_payment_platform: the if/elif chain on the lower-cased text.    *)

KwPhonePe == <<"p","h","o","n","e"," ","p","e">>
KwYbl == <<"@","y","b","l">>
KwAxl == <<"@","a","x","l">>
KwPaytm == <<"p","a","y","t","m">>
KwBharatpe == <<"b","h","a","r","a","t","p","e">>
KwCashWdl == <<"c","a","s","h"," ","w","d","l">>
KwOk == <<"@","o","k">>

PhonePe == PyStr(<<"P","h","o","n","e","P","e">>)
Paytm == PyStr(<<"P","a","y","t","m">>)
BharatPay == PyStr(<<"B","h","a","r","a","t"," ","P","a","y">>)
ATM == PyStr(<<"A","T","M">>)
GooglePay == PyStr(<<"G","o","o","g","l","e"," ","P","a","y">>)

platform_chain_swapped(t) ==
    IF Contains(t, KwPhonePe) \/ Contains(t, KwYbl) \/ Contains(t, KwAxl) THEN PhonePe
    ELSE IF Contains(t, KwOk) THEN GooglePay
    ELSE IF Contains(t, KwBharatpe) THEN BharatPay
    ELSE IF Contains(t, KwCashWdl) THEN ATM
    ELSE IF Contains(t, KwPaytm) THEN Paytm
    ELSE PyNone

platform_chain(t) ==
    IF Contains(t, KwPhonePe) \/ Contains(t, KwYbl) \/ Contains(t, KwAxl) THEN PhonePe
    ELSE IF Contains(t, KwPaytm) THEN Paytm
    ELSE IF Contains(t, KwBharatpe) THEN BharatPay
    ELSE IF Contains(t, KwCashWdl) THEN ATM
    ELSE IF Contains(t, KwOk) THEN GooglePay
    ELSE PyNone

\* only a str has .lower()
extract_payment_platform(v) ==
    LET x == handle_nan(v)
    IN  IF x.kind # "str" THEN TypeError ELSE platform_chain(Lower(x.s))

-----------------------------------------------------------------------------
(* Loaders and aggregation.                                                *)

CSV == "text/csv"
XLSX == "application/vnd.openxmlformats-officedocument.spreadsheetml.sheet"
PDF == "application/pdf"
DOCX == "application/vnd.openxmlformats-officedocument.wordprocessingml.document"

TabularTypes == {CSV, XLSX}
DocumentTypes == {PDF, DOCX}

Unbound == [bound |-> FALSE, columns |-> <<>>, rows |-> <<>>]

\* the literal of line 111, kept as one piece of text
NotFoundMarker == PyStr(<<"N/A (Amount column not found)">>)

IsNumeric(t) == Len(t) > 0 /\ \A i \in 1..Len(t) : t[i] \in Range(Digits)

DigitValue(c) == (CHOOSE i \in DOMAIN Digits : Digits[i] = c) - 1

RECURSIVE ParseNat(_)
ParseNat(t) == IF Len(t) = 0 THEN 0
               ELSE 10 * ParseNat(SubSeq(t, 1, Len(t) - 1)) + DigitValue(t[Len(t)])

\* pd.read_csv on one column of fields: an empty field is NaN; the column is
\* numeric when every other field parses as a number, else it stays text
read_csv_column(cells) ==
    IF \A i \in 1..Len(cells) : cells[i].kind = "None" \/ IsNumeric(cells[i].s)
    THEN [i \in 1..Len(cells) |->
            IF cells[i].kind = "None" THEN PyNone ELSE PyInt(ParseNat(cells[i].s))]
    ELSE cells

Column(rows, c) == [i \in 1..Len(rows) |-> rows[i][c]]

NewRow(nar, amt) ==
    [Narration |-> nar, Amount |-> amt, Name |-> Unset,
     Payment_Method |-> Unset, Payment_Platform |-> Unset]

\* pd.read_csv(io.StringIO(...)): header from the first line, typed columns
read_csv(content) ==
    LET nar == read_csv_column(Column(content.rows, "Narration"))
        amt == read_csv_column(Column(content.rows, "Amount"))
    IN  [bound |-> TRUE, columns |-> content.columns,
         rows |-> [i \in 1..Len(content.rows) |->
                     NewRow(IF "Narration" \in Range(content.columns) THEN nar[i] ELSE Unset,
                            IF "Amount" \in Range(content.columns) THEN amt[i] ELSE Unset)]]

\* process_excel_file: data[0] is the header, cells keep the workbook's types
process_excel_file(content) ==
    [bound |-> TRUE, columns |-> content.columns,
     rows |-> [i \in 1..Len(content.rows) |->
                 NewRow(content.rows[i].Narration, content.rows[i].Amount)]]

RECURSIVE extract_text_from_pdf(_)
\* text += page.get_text() for each page
extract_text_from_pdf(pages) ==
    IF pages = <<>> THEN <<>> ELSE Head(pages) \o extract_text_from_pdf(Tail(pages))

RECURSIVE extract_text_from_docx(_)
\* text += paragraph.text + "\n" for each paragraph
extract_text_from_docx(paragraphs) ==
    IF paragraphs = <<>> THEN <<>>
    ELSE Head(paragraphs) \o <<"\n">> \o extract_text_from_docx(Tail(paragraphs))

\* Python's + on two values
PyAdd(a, b) ==
    IF a.kind = "TypeError" \/ b.kind = "TypeError" THEN TypeError
    ELSE IF a.kind = "int" /\ b.kind = "int" THEN PyInt(a.n + b.n)
    ELSE IF a.kind = "str" /\ b.kind = "str" THEN PyStr(a.s \o b.s)
    ELSE TypeError

RECURSIVE AddReduce(_)
AddReduce(cells) ==
    IF Len(cells) = 1 THEN cells[1]
    ELSE PyAdd(AddReduce(SubSeq(cells, 1, Len(cells) - 1)), cells[Len(cells)])

\* Series.sum(): skipna puts 0 in place of the nulls, then + folds the cells
SeriesSum(cells) ==
    IF Len(cells) = 0 THEN PyInt(0)
    ELSE AddReduce([i \in 1..Len(cells) |->
                      IF cells[i].kind = "None" THEN PyInt(0) ELSE cells[i]])

\* df[col].apply(f) stored under a new column
Enrich(d) ==
    [d EXCEPT !.rows = [i \in 1..Len(d.rows) |->
        [d.rows[i] EXCEPT
           !.Name = extract_sender_receiver_name(d.rows[i].Narration),
           !.Payment_Method = extract_payment_method(d.rows[i].Narration),
           !.Payment_Platform = extract_payment_platform(d.rows[i].Narration)]],
       !.columns = d.columns \o <<"Name", "Payment_Method", "Payment_Platform">>]

\* (df['Payment_Platform'] == 'ATM').sum()
CountATM(d) == Cardinality({i \in 1..Len(d.rows) : d.rows[i].Payment_Platform = ATM})

OtherFromClassified(d, cash) ==
    Cardinality({i \in 1..Len(d.rows) : d.rows[i].Payment_Platform.kind = "str"}) - cash

\* len(df) - cash_withdrawals
OtherCount(d, cash) == Len(d.rows) - cash

-----------------------------------------------------------------------------
(* Inputs.                                                                 *)

MaxRows == 2
MaxParts == 2
MaxNameLen == 6
MaxMethodFrags == 3
MaxPlatformFrags == 2

RECURSIVE SeqsUpTo(_, _)
\* all sequences over S of length at most k
SeqsUpTo(S, k) ==
    IF k = 0 THEN {<<>>}
    ELSE LET P == SeqsUpTo(S, k - 1) IN P \cup {Append(p, x) : p \in P, x \in S}

RECURSIVE Concats(_, _)
\* all concatenations of at most k pieces of F
Concats(F, k) ==
    IF k = 0 THEN {<<>>}
    ELSE LET P == Concats(F, k - 1) IN P \cup {p \o f : p \in P, f \in F}

TxtUpiJohn == <<"U","P","I"," ","t","o"," ","J","O","H","N"," ","S","M","I","T","H">>
TxtCashWdl == <<"c","a","s","h"," ","w","d","l">>
TxtPaytm == <<"P","a","y","T","M","@","o","k">>

NarrationCells == {PyNone, PyStr(TxtUpiJohn), PyStr(TxtCashWdl), PyStr(TxtPaytm)}

CsvAmountCells == {PyNone, PyStr(<<"1","0","0">>), PyStr(<<"5","0">>), PyStr(<<"a","b","c">>)}

XlsxAmountCells == {PyNone, PyInt(100), PyInt(50), PyStr(<<"a","b","c">>)}

Headers == { <<"Narration", "Amount">>, <<"Narration">>, <<"Amount">> }

NoContent == [ok |-> TRUE, columns |-> <<>>, rows |-> <<>>, parts |-> <<>>]

Corrupt == [ok |-> FALSE, columns |-> <<>>, rows |-> <<>>, parts |-> <<>>]

TablesOf(h, amounts) ==
    {[ok |-> TRUE, columns |-> h, rows |-> r, parts |-> <<>>] :
        r \in SeqsUpTo(
               [Narration : IF "Narration" \in Range(h) THEN NarrationCells ELSE {Unset},
                Amount : IF "Amount" \in Range(h) THEN amounts ELSE {Unset}], MaxRows)}

Documents ==
    {[ok |-> TRUE, columns |-> <<>>, rows |-> <<>>, parts |-> ps] :
        ps \in SeqsUpTo({TxtUpiJohn, TxtCashWdl}, MaxParts)}

Uploads ==
    {[type |-> CSV, content |-> c] :
        c \in {Corrupt} \cup UNION {TablesOf(h, CsvAmountCells) : h \in Headers}}
    \cup {[type |-> XLSX, content |-> c] :
        c \in {Corrupt} \cup UNION {TablesOf(h, XlsxAmountCells) : h \in Headers}}
    \cup {[type |-> ty, content |-> c] : ty \in DocumentTypes, c \in {Corrupt} \cup Documents}
    \cup {[type |-> "text/plain", content |-> NoContent]}

NameAlphabet == {"A", "a", " ", "\t", "-"}

MethodFrags == { <<"U","P","I">>, <<"I","M","P","S">>, <<"N","E","F","T">>,
                 <<"R","T","G","S">>, <<" ">>, <<"X">>, <<"x">>, <<"-">>, <<"U","P">> }

PlatformFrags == { KwPhonePe, KwYbl, KwAxl, KwPaytm, KwBharatpe, KwCashWdl, KwOk,
                   <<"P","A","Y","T","M">>, <<"@","O","k">>, <<"C","a","s","h"," ","W","D","L">>,
                   <<"p","a","y">>, <<"t","m">>, <<" ">>, <<"x">> }

HeurValues ==
    {PyNone, PyInt(0), PyInt(7), PyInt(120)}
    \cup {PyStr(t) : t \in Concats({TxtUpiJohn, TxtCashWdl, TxtPaytm, <<" ">>,
                                     <<"N","E","F","T">>, <<"@","y","b","l">>}, 2)}

-----------------------------------------------------------------------------
(* main(): one action per statement group, pc is the position in main.     *)

MainIdle ==
    /\ pc = "idle" /\ uploaded_file = [type |-> "", content |-> NoContent]
    /\ df = Unbound /\ total_amount = Unset /\ errors = <<>> /\ written = FALSE
    /\ executor = "none" /\ submitted = 0 /\ cash_withdrawals = -1
    /\ other_transactions = -1 /\ raised = "" /\ trace = <<>>

HeurIdle ==
    /\ narration = PyNone /\ norm = Unset /\ name = Unset /\ method = Unset
    /\ platform = Unset

Init ==
    /\ uploaded_file \in Uploads
    /\ pc = "dispatch" /\ df = Unbound /\ total_amount = Unset /\ errors = <<>>
    /\ written = FALSE /\ executor = "none" /\ submitted = 0
    /\ cash_withdrawals = -1 /\ other_transactions = -1 /\ raised = "" /\ trace = <<>>
    /\ HeurIdle

Raise(exc) == raised' = exc /\ pc' = "except"

\* lines 88-89
LoadCsv ==
    /\ pc = "dispatch" /\ uploaded_file.type = CSV
    /\ trace' = trace \o <<"detect", "load">>
    /\ IF uploaded_file.content.ok
       THEN df' = read_csv(uploaded_file.content) /\ pc' = "data" /\ UNCHANGED raised
       ELSE Raise("ParserError") /\ UNCHANGED df
    /\ UNCHANGED <<uploaded_file, total_amount, errors, written, executor, submitted,
                   cash_withdrawals, other_transactions>>
    /\ UNCHANGED heurVars

\* lines 91-92
LoadExcel ==
    /\ pc = "dispatch" /\ uploaded_file.type = XLSX
    /\ trace' = trace \o <<"detect", "load">>
    /\ IF uploaded_file.content.ok
       THEN df' = process_excel_file(uploaded_file.content) /\ pc' = "data"
            /\ UNCHANGED raised
       ELSE Raise("BadZipFile") /\ UNCHANGED df
    /\ UNCHANGED <<uploaded_file, total_amount, errors, written, executor, submitted,
                   cash_withdrawals, other_transactions>>
    /\ UNCHANGED heurVars

\* lines 94-96 and 99-101: with ThreadPoolExecutor() as executor
OpenExecutor ==
    /\ pc = "dispatch" /\ uploaded_file.type \in DocumentTypes
    /\ trace' = trace \o <<"detect">>
    /\ executor' = "open" /\ pc' = "submit"
    /\ UNCHANGED <<uploaded_file, df, total_amount, errors, written, submitted,
                   cash_withdrawals, other_transactions, raised>>
    /\ UNCHANGED heurVars

\* lines 97 and 102: the argument process_pdf_file / process_docx_file names
\* nothing defined in the module, so evaluating it raises NameError before
\* submit is called; leaving the with block shuts the executor down
SubmitTask ==
    /\ pc = "submit"
    /\ executor' = "shutdown"
    /\ Raise("NameError")
    /\ UNCHANGED <<uploaded_file, df, total_amount, errors, written, submitted,
                   cash_withdrawals, other_transactions, trace>>
    /\ UNCHANGED heurVars

\* lines 104-105: st.error, and control goes on to line 108
Unsupported ==
    /\ pc = "dispatch" /\ uploaded_file.type \notin TabularTypes \cup DocumentTypes
    /\ trace' = trace \o <<"detect", "reject">>
    /\ errors' = Append(errors, [msg |-> "Unsupported file format", exc |-> ""])
    /\ pc' = "data"
    /\ UNCHANGED <<uploaded_file, df, total_amount, written, executor, submitted,
                   cash_withdrawals, other_transactions, raised>>
    /\ UNCHANGED heurVars

\* lines 108-111
DataProcessing ==
    /\ pc = "data"
    /\ trace' = Append(trace, "aggregate")
    /\ IF ~df.bound
       THEN Raise("UnboundLocalError") /\ UNCHANGED total_amount
       ELSE IF "Amount" \in Range(df.columns)
       THEN LET total == SeriesSum(Column(df.rows, "Amount"))
            IN  IF total = TypeError
                THEN Raise("TypeError") /\ UNCHANGED total_amount
                ELSE total_amount' = total /\ pc' = "classify" /\ UNCHANGED raised
       ELSE total_amount' = NotFoundMarker /\ pc' = "classify" /\ UNCHANGED raised
    /\ UNCHANGED <<uploaded_file, df, errors, written, executor, submitted,
                   cash_withdrawals, other_transactions>>
    /\ UNCHANGED heurVars

\* lines 113-115
Classify ==
    /\ pc = "classify"
    /\ trace' = Append(trace, "classify")
    /\ IF "Narration" \notin Range(df.columns)
       THEN Raise("KeyError") /\ UNCHANGED df
       ELSE IF \E i \in 1..Len(df.rows) :
                  TypeError \in {Enrich(df).rows[i].Name, Enrich(df).rows[i].Payment_Method,
                                 Enrich(df).rows[i].Payment_Platform}
       THEN Raise("TypeError") /\ UNCHANGED df
       ELSE df' = Enrich(df) /\ pc' = "show" /\ UNCHANGED raised
    /\ UNCHANGED <<uploaded_file, total_amount, errors, written, executor, submitted,
                   cash_withdrawals, other_transactions>>
    /\ UNCHANGED heurVars

\* lines 119-122: st.write(df) and the total
ShowTable ==
    /\ pc = "show"
    /\ trace' = Append(trace, "present")
    /\ written' = TRUE /\ pc' = "charts"
    /\ UNCHANGED <<uploaded_file, df, total_amount, errors, executor, submitted,
                   cash_withdrawals, other_transactions, raised>>
    /\ UNCHANGED heurVars

\* lines 124-139: the two distribution charts are drawn
Charts ==
    /\ pc = "charts"
    /\ pc' = "cash"
    /\ UNCHANGED <<uploaded_file, df, total_amount, errors, written, executor, submitted,
                   cash_withdrawals, other_transactions, raised, trace>>
    /\ UNCHANGED heurVars

\* lines 124-139: the plotting library rejects the data
ChartsRaise ==
    /\ pc = "charts"
    /\ Raise("PlotError")
    /\ UNCHANGED <<uploaded_file, df, total_amount, errors, written, executor, submitted,
                   cash_withdrawals, other_transactions, trace>>
    /\ UNCHANGED heurVars

\* lines 141-147
CashChart ==
    /\ pc = "cash"
    /\ cash_withdrawals' = CountATM(df)
    /\ other_transactions' = OtherCount(df, CountATM(df))
    /\ pc' = "download"
    /\ UNCHANGED <<uploaded_file, df, total_amount, errors, written, executor, submitted,
                   raised, trace>>
    /\ UNCHANGED heurVars

\* lines 149-156
Download ==
    /\ pc = "download"
    /\ pc' = "done"
    /\ UNCHANGED <<uploaded_file, df, total_amount, errors, written, executor, submitted,
                   cash_withdrawals, other_transactions, raised, trace>>
    /\ UNCHANGED heurVars

\* lines 159-160
Handler ==
    /\ pc = "except"
    /\ errors' = Append(errors, [msg |-> "Error processing file", exc |-> raised])
    /\ pc' = "done"
    /\ UNCHANGED <<uploaded_file, df, total_amount, written, executor, submitted,
                   cash_withdrawals, other_transactions, raised, trace>>
    /\ UNCHANGED heurVars

Next ==
    \/ LoadCsv \/ LoadExcel \/ OpenExecutor \/ SubmitTask \/ Unsupported
    \/ DataProcessing \/ Classify \/ ShowTable \/ Charts \/ ChartsRaise
    \/ CashChart \/ Download \/ Handler

Spec == Init /\ [][Next]_vars

-----------------------------------------------------------------------------
(* The heuristics on their own: one narration, each heuristic applied once.*)

ApplyName ==
    /\ name = Unset
    /\ norm' = handle_nan(narration)
    /\ name' = extract_sender_receiver_name(narration)
    /\ UNCHANGED <<narration, method, platform>>
    /\ UNCHANGED mainVars

ApplyMethod ==
    /\ method = Unset
    /\ norm' = handle_nan(narration)
    /\ method' = extract_payment_method(narration)
    /\ UNCHANGED <<narration, name, platform>>
    /\ UNCHANGED mainVars

ApplyPlatform ==
    /\ platform = Unset
    /\ norm' = handle_nan(narration)
    /\ platform' = extract_payment_platform(narration)
    /\ UNCHANGED <<narration, name, method>>
    /\ UNCHANGED mainVars

HeurStart == MainIdle /\ norm = Unset /\ name = Unset /\ method = Unset /\ platform = Unset

InitName == HeurStart /\ narration \in {PyStr(t) : t \in SeqsUpTo(NameAlphabet, MaxNameLen)}

NextName == ApplyName

SpecName == InitName /\ [][NextName]_vars

InitMethod == HeurStart /\ narration \in {PyStr(t) : t \in Concats(MethodFrags, MaxMethodFrags)}

NextMethod == ApplyMethod

SpecMethod == InitMethod /\ [][NextMethod]_vars

InitPlatform ==
    HeurStart /\ narration \in {PyStr(t) : t \in Concats(PlatformFrags, MaxPlatformFrags)}

NextPlatform == ApplyPlatform

SpecPlatform == InitPlatform /\ [][NextPlatform]_vars

InitHeur == HeurStart /\ narration \in HeurValues

NextHeur == ApplyName \/ ApplyMethod \/ ApplyPlatform

SpecHeur == InitHeur /\ [][NextHeur]_vars

-----------------------------------------------------------------------------
(* Properties.                                                             *)

SupportedTypes == TabularTypes \cup DocumentTypes

UnsupportedMsg == [msg |-> "Unsupported file format", exc |-> ""]

\* C1: an upload whose declared type is not one of the four supported ones is
\* rejected with the unsupported-format failure before any parsing,
\* classification or aggregation is attempted, and no step runs after the
\* rejection.
C1_RejectedBeforeAnyStep ==
    uploaded_file.type \notin SupportedTypes /\ pc # "idle" =>
        /\ \A i \in DOMAIN trace : trace[i] \in {"detect", "reject"}
        /\ pc = "done" => errors = <<UnsupportedMsg>>

\* C2: when detection, loading, extraction or classification fails, the
\* presentation side gets exactly one failure report and no record table.
C2_OneFailureNoTable ==
    pc = "done" /\ errors # <<>> /\ raised # "PlotError" =>
        Len(errors) = 1 /\ ~written

DocumentText(u) ==
    IF u.type = PDF THEN extract_text_from_pdf(u.content.parts)
    ELSE extract_text_from_docx(u.content.parts)

\* C3: a readable PDF or Word upload yields a record set of exactly one
\* record whose narration is the whole document text.
C3_DocumentYieldsOneRecord ==
    pc = "done" /\ uploaded_file.type \in DocumentTypes /\ uploaded_file.content.ok =>
        /\ df.bound
        /\ Len(df.rows) = 1
        /\ df.rows[1].Narration = PyStr(DocumentText(uploaded_file))

\* C4: on the document path extraction is handed to a background worker and
\* the flow waits for it: aggregation and classification start only after the
\* task has completed, at most one task is submitted per upload, and the
\* tabular path never starts a worker.
C4_ExtractionOnWorker ==
    /\ submitted <= 1
    /\ uploaded_file.type \in TabularTypes => executor = "none"
    /\ uploaded_file.type \in DocumentTypes
         /\ (\E i \in DOMAIN trace : trace[i] \in {"aggregate", "classify"})
         => submitted = 1 /\ executor = "shutdown"
    /\ uploaded_file.type \in DocumentTypes /\ pc = "done" => submitted = 1

-----------------------------------------------------------------------------

\* the rule table of the platform heuristic, highest priority first
PlatformRules ==
    << [kws |-> {KwPhonePe, KwYbl, KwAxl}, value |-> PhonePe],
       [kws |-> {KwPaytm}, value |-> Paytm],
       [kws |-> {KwBharatpe}, value |-> BharatPay],
       [kws |-> {KwCashWdl}, value |-> ATM],
       [kws |-> {KwOk}, value |-> GooglePay] >>

\* kw occurs in t at some position, letter case ignored
OccursIgnoringCase(t, kw) ==
    \E i \in 1..(Len(t) - Len(kw) + 1) :
        \A j \in 1..Len(kw) : LowerChar(t[i + j - 1]) = kw[j]

RuleFires(t, r) == \E kw \in PlatformRules[r].kws : OccursIgnoringCase(t, kw)

\* C5: the platform is the value of the highest-priority rule one of whose
\* keywords occurs anywhere in the narration, letter case ignored and
\* whatever the position of the keywords, and none exactly when no keyword
\* occurs.
C5_PlatformByPriority ==
    platform # Unset /\ narration.kind = "str" =>
        LET fired == {r \in DOMAIN PlatformRules : RuleFires(narration.s, r)}
        IN  /\ fired = {} <=> platform = PyNone
            /\ fired # {} =>
                 platform = PlatformRules[CHOOSE r \in fired : \A q \in fired : r <= q].value

\* C5 witness: both "paytm" and "@ok" occur, "@ok" first, and Paytm is returned
C5_Witness ==
    /\ platform = Paytm
    /\ \E i, j \in 1..Len(narration.s) :
          /\ i < j
          /\ StartsAt(Lower(narration.s), i, KwOk)
          /\ StartsAt(Lower(narration.s), j, KwPaytm)

-----------------------------------------------------------------------------

\* token k stands at position i followed by a word boundary; whole also asks
\* for a word boundary in front of it
MethodOccurs(t, i, k, whole) ==
    /\ StartsAt(t, i, MethodTokens[k])
    /\ WordBoundary(t, i + Len(MethodTokens[k]))
    /\ whole => WordBoundary(t, i)

LeftmostMethod(t, whole) ==
    LET occ == {ik \in (1..Len(t)) \X DOMAIN MethodTokens :
                   MethodOccurs(t, ik[1], ik[2], whole)}
    IN  IF occ = {} THEN PyNone
        ELSE PyStr(MethodTokens[(CHOOSE ik \in occ : \A o \in occ : ik[1] <= o[1])[2]])

\* C6 as stated: the method is the leftmost UPI, IMPS, NEFT or RTGS standing
\* as a whole word (word boundary on both sides), none when there is none.
C6_LeftmostWholeWord ==
    method # Unset /\ narration.kind = "str" =>
        method = LeftmostMethod(narration.s, TRUE)

\* C6 amended: the method is the leftmost UPI, IMPS, NEFT or RTGS that is
\* followed by a word boundary (whatever precedes it), none when there is
\* none.
C6_LeftmostTokenBeforeBoundary ==
    method # Unset /\ narration.kind = "str" =>
        method = LeftmostMethod(narration.s, FALSE)

\* C6 witness: a token glued to a preceding letter is returned
C6_Witness ==
    /\ method = PyStr(<<"U","P","I">>)
    /\ LeftmostMethod(narration.s, TRUE) = PyNone

-----------------------------------------------------------------------------

\* t[i..j] is a run of two or more all-uppercase tokens, neighbours separated
\* by exactly one character of seps, starting and ending at a word boundary
UpperTokenRun(t, i, j, seps) ==
    /\ 1 <= i /\ i < j /\ j <= Len(t)
    /\ IsUpper(t[i]) /\ IsUpper(t[j])
    /\ \A k \in i..j : IsUpper(t[k]) \/ t[k] \in seps
    /\ \A k \in i..(j - 1) : ~(t[k] \in seps /\ t[k + 1] \in seps)
    /\ \E k \in i..j : t[k] \in seps
    /\ WordBoundary(t, i) /\ WordBoundary(t, j + 1)

MaximalRun(t, i, j, seps) ==
    /\ UpperTokenRun(t, i, j, seps)
    /\ \A i2 \in 1..i : \A j2 \in j..Len(t) :
          UpperTokenRun(t, i2, j2, seps) => i2 = i /\ j2 = j

FirstMaximalRun(t, seps) ==
    LET runs == {ij \in (1..Len(t)) \X (1..Len(t)) : MaximalRun(t, ij[1], ij[2], seps)}
    IN  IF runs = {} THEN PyNone
        ELSE LET f == CHOOSE ij \in runs : \A o \in runs : ij[1] <= o[1]
             IN  PyStr(SubSeq(t, f[1], f[2]))

Whitespace == {" ", "\t", "\n", "\r", "\f"}

\* C7 as stated: the name is the first maximal run of two or more
\* space-separated all-uppercase tokens, none exactly when there is no such
\* run.
C7_FirstSpaceSeparatedRun ==
    name # Unset /\ narration.kind = "str" =>
        name = FirstMaximalRun(narration.s, {" "})

\* C7 amended: the name is the first maximal run of two or more all-uppercase
\* tokens separated by single whitespace characters (space, tab, newline,
\* ...), none exactly when there is no such run.
C7_FirstWhitespaceSeparatedRun ==
    name # Unset /\ narration.kind = "str" =>
        name = FirstMaximalRun(narration.s, Whitespace)

\* C7 witness: a run of three tokens, one separator a tab, that does not
\* start the narration, is returned whole
C7_Witness ==
    /\ name = PyStr(<<"A", "\t", "A", " ", "A">>)
    /\ narration.s[1] # "A"

-----------------------------------------------------------------------------

RECURSIVE SumParseable(_)
\* sum of the cells that hold a number, the others skipped
SumParseable(cells) ==
    IF cells = <<>> THEN 0
    ELSE (IF Head(cells).kind = "int" THEN Head(cells).n
          ELSE IF Head(cells).kind = "str" /\ IsNumeric(Head(cells).s)
               THEN ParseNat(Head(cells).s)
          ELSE 0) + SumParseable(Tail(cells))

\* C8: total_amount is the "unavailable" marker when the table has no Amount
\* column, and otherwise the sum of the present, parseable amounts, the other
\* cells being skipped without a failure and without changing the sum's type.
C8_TotalSkipsUnparseable ==
    df.bound /\ (\E i \in DOMAIN trace : trace[i] = "aggregate") =>
        IF "Amount" \in Range(uploaded_file.content.columns)
        THEN total_amount = PyInt(SumParseable(Column(uploaded_file.content.rows, "Amount")))
        ELSE total_amount = NotFoundMarker

-----------------------------------------------------------------------------

MethodValues == {PyStr(MethodTokens[k]) : k \in DOMAIN MethodTokens}

PlatformValues == {PhonePe, Paytm, BharatPay, ATM, GooglePay}

\* C9: no heuristic fails on its input: for every narration value, a null one
\* and non-string ones included, each heuristic returns a value of its type
\* or none; a null narration is normalized to the empty string and yields none
\* for the three derived fields.
C9_HeuristicsNeverFail ==
    /\ name.kind \in {"unset", "None", "str"}
    /\ method \in {Unset, PyNone} \cup MethodValues
    /\ platform \in {Unset, PyNone} \cup PlatformValues
    /\ norm.kind \in {"unset", "str"}
    /\ narration = PyNone =>
          /\ norm \in {Unset, PyStr(<<>>)}
          /\ name \in {Unset, PyNone}
          /\ method \in {Unset, PyNone}
          /\ platform \in {Unset, PyNone}

\* C9 witness: the three heuristics have run on a null narration
C9_Witness ==
    narration = PyNone /\ norm = PyStr(<<>>) /\ name = PyNone /\ method = PyNone
    /\ platform = PyNone

-----------------------------------------------------------------------------

\* C10: cash_withdrawal_count is the number of records whose platform is ATM,
\* other_count the number of all the remaining records, unclassified ones
\* included; both are non-negative and add up to the record count.
C10_CashPartition ==
    pc \in {"download", "done"} /\ cash_withdrawals # -1 =>
        /\ cash_withdrawals =
              Cardinality({i \in 1..Len(df.rows) : df.rows[i].Payment_Platform = ATM})
        /\ other_transactions =
              Cardinality({i \in 1..Len(df.rows) : df.rows[i].Payment_Platform # ATM})
        /\ cash_withdrawals >= 0 /\ other_transactions >= 0
        /\ cash_withdrawals + other_transactions = Len(df.rows)

\* C10 witness: one cash withdrawal and one unclassified record were counted
C10_Witness ==
    /\ pc = "done" /\ cash_withdrawals = 1 /\ other_transactions = 1
    /\ \E i \in 1..Len(df.rows) : df.rows[i].Payment_Platform = PyNone

====
